---- MODULE Spec2Model ----
(***************************************************************************)
(* A model of gulpfile.js: the task definitions, the pipelines they build, *)
(* the run-sequence list of the 'default' task and the gulp 3 orchestrator *)
(* that runs them.  Files are records; a stream is the set of files that   *)
(* currently flows through a pipeline.                                     *)
(***************************************************************************)
EXTENDS Integers, Sequences, FiniteSets, TLC

\* ------------------------------------------------------------------------
\* Bounds of the model.
\* ------------------------------------------------------------------------

\* Change events delivered to the watchers in one session.
MaxEvents == 2

\* Edits of one source file in one session.
MaxEdits == 2

\* Errors raised by pipeline stages in one session.
MaxErrors == 1

\* Source files of a layout in the path specification.
MaxSources == 2

VARIABLES
  isProd,          \* process.env.NODE_ENV === 'production'
  srcFile,         \* the source file followed in each of the four globs
  srcVer,          \* its content version (edits count up)
  stale,           \* the output directory holds files of an earlier build
  dest,            \* files written below each task's destination
  running,         \* orchestrator: task.running
  done,            \* orchestrator: task.done
  seq,             \* orchestrator: the tasks of the current queue
  isRunning,       \* orchestrator: a run is in play
  taskSets,        \* run-sequence: the task sets still to run
  currentTaskSet,  \* run-sequence: the set being waited for
  listening,       \* run-sequence: task_stop / task_err listeners attached
  cbState,         \* the default task's callback: "none", "ok", "err"
  pipe,            \* the stream of each compile task
  watchers,        \* registered gulp.watch watchers: <<glob owner, task>>
  bs,              \* browserSync: calls of init, stream and reload
  nStart,          \* task_start events emitted, per task
  nStop,           \* task_stop events emitted, per task
  nErr,            \* task_err events emitted, per task
  nEvents,         \* change events delivered, per glob owner
  raised,          \* errors raised by pipeline stages, per task
  notified,        \* 'Compile Error' notifications shown, per task
  layout,          \* path specification: the source tree
  written          \* path specification: output paths written, per task

orchVars == <<running, done, seq, isRunning, taskSets, currentTaskSet, listening,
              cbState, pipe, watchers, bs, nStart, nStop, nErr>>
fileVars == <<srcFile, srcVer, stale, dest>>
histVars == <<nEvents, raised, notified>>
pathVars == <<layout, written>>
vars == <<isProd, orchVars, fileVars, histVars, pathVars>>

\* ------------------------------------------------------------------------
\* Configuration: directories, paths, tasks.
\* ------------------------------------------------------------------------

Compile == {"views", "media", "styles", "scripts"}

ReloadTasks == {"views:watch", "scripts:watch"}

SyncTasks == {"serve", "watch"}

AllTasks == Compile \cup ReloadTasks \cup SyncTasks \cup {"clean", "default"}

\* dirs.output
OutputDir == <<"build">>

\* DestDir with the views destination set to that of media.
DestDir_viewsIntoMedia(k) ==
  IF k = "scripts" THEN OutputDir \o <<"static", "scripts">>
  ELSE IF k = "styles" THEN OutputDir \o <<"static", "styles">>
  ELSE OutputDir \o <<"static", "media">>

\* paths.<task>.dest
DestDir(k) ==
  CASE k = "views" -> OutputDir
    [] k = "media" -> OutputDir \o <<"static", "media">>
    [] k = "styles" -> OutputDir \o <<"static", "styles">>
    [] k = "scripts" -> OutputDir \o <<"static", "scripts">>

MediaExts == {"gif", "jpg", "jpeg", "png", "svg"}

StyleExts == {"css", "scss"}

\* Base names that end in ".module" (scripts/**/*.module.js is excluded).
ModuleBases == {"lib.module"}

\* paths.<task>.src: does the file (relative to src/<task>/) match the glob?
MatchesSrc(k, f) ==
  CASE k = "views" -> TRUE
    [] k = "media" -> f.ext \in MediaExts
    [] k = "styles" -> f.ext \in StyleExts
    [] k = "scripts" -> f.ext = "js" /\ f.base \notin ModuleBases

\* pluginConfig.webpack.plugins
WebpackPlugins == IF isProd THEN {"MinifyPlugin"} ELSE {}

\* Pipeline with the imagemin condition of 'media' inverted.
Pipeline_devImagemin(k) ==
  CASE k = "views" -> <<"src", "plumber", IF isProd THEN "noop" ELSE "changed", "dest">>
    [] k = "media" -> <<"src", "plumber", IF isProd THEN "noop" ELSE "changed",
                        IF isProd THEN "noop" ELSE "imagemin", "dest",
                        IF isProd THEN "noop" ELSE "stream">>
    [] k = "styles" -> <<"src", "plumber", IF isProd THEN "noop" ELSE "changed",
                         "sourcemaps.init", "sass", "autoprefixer",
                         IF isProd THEN "cleanCSS" ELSE "noop",
                         "sourcemaps.write", "dest",
                         IF isProd THEN "noop" ELSE "stream">>
    [] k = "scripts" -> <<"src", "plumber", "named", "webpack", "dest">>

\* The stages of each compile task, in pipe order.
Pipeline(k) ==
  CASE k = "views" -> <<"src", "plumber", IF isProd THEN "noop" ELSE "changed", "dest">>
    [] k = "media" -> <<"src", "plumber", IF isProd THEN "noop" ELSE "changed",
                        IF isProd THEN "imagemin" ELSE "noop", "dest",
                        IF isProd THEN "noop" ELSE "stream">>
    [] k = "styles" -> <<"src", "plumber", IF isProd THEN "noop" ELSE "changed",
                         "sourcemaps.init", "sass", "autoprefixer",
                         IF isProd THEN "cleanCSS" ELSE "noop",
                         "sourcemaps.write", "dest",
                         IF isProd THEN "noop" ELSE "stream">>
    [] k = "scripts" -> <<"src", "plumber", "named", "webpack", "dest">>

\* Tasks whose pipeline calls browserSync.stream() when it is built.
StreamTasks == {k \in Compile : \E i \in 1..Len(Pipeline(k)) : Pipeline(k)[i] = "stream"}

\* Stages that pass files on untouched and raise no error of their own.
QuietStages == {"src", "plumber", "noop"}

\* ------------------------------------------------------------------------
\* Stages as functions on the set of files in the stream.
\* A file: [path |-> [dir, base, ext], ver, applied]; ver stands for the
\* content and the mtime of the source it was read from.  A written file
\* adds asOf, its own mtime: the source version that was current when it
\* was written.
\* ------------------------------------------------------------------------

\* gulp-changed is given the destination only: the target it stats is the
\* file's own relative path below the destination.
ChangedTarget(p) == p

\* gulp-changed: pass a file on if its target is missing or older than it.
ChangedPasses(f, destFiles) ==
  \A w \in destFiles : w.path = ChangedTarget(f.path) => f.ver > w.asOf

Mark(files, name) == {[f EXCEPT !.applied = @ \cup {name}] : f \in files}

StageApply(stage, files, destFiles) ==
  CASE stage = "changed" -> {f \in files : ChangedPasses(f, destFiles)}
    [] stage = "imagemin" -> Mark(files, "imagemin")
    [] stage = "sass" ->
         {[f EXCEPT !.path.ext = "css", !.applied = @ \cup {"sass"}] : f \in files}
    [] stage = "autoprefixer" -> Mark(files, "autoprefixer")
    [] stage = "cleanCSS" -> Mark(files, "cleanCSS")
    [] stage = "sourcemaps.write" ->
         files \cup {[f EXCEPT !.path.ext = "css.map", !.applied = {"sourcemap"}] : f \in files}
    [] stage = "webpack" ->
         {[path |-> [dir |-> <<>>, base |-> f.path.base, ext |-> "js"],
           ver |-> f.ver,
           applied |-> {"babel-loader"} \cup WebpackPlugins] : f \in files}
    [] OTHER -> files

\* gulp.dest: write every file of the stream, replacing a file of the same path.
WriteAll(destFiles, files, now) ==
  {w \in destFiles : ~ \E f \in files : f.path = w.path}
    \cup {[path |-> f.path, ver |-> f.ver, applied |-> f.applied, asOf |-> now] : f \in files}

\* ------------------------------------------------------------------------
\* Error handling.
\* ------------------------------------------------------------------------

\* errorHandler without its emit('end'): the stream fails.
errorHandler_rethrow == [notify |-> 1, end |-> FALSE]

\* pluginConfig.plumber.errorHandler: one notification, then emit('end').
errorHandler == [notify |-> 1, end |-> TRUE]

\* ------------------------------------------------------------------------
\* Tasks and the orchestrator.
\* ------------------------------------------------------------------------

\* Deps with the dependency arrays left out.
Deps_none(t) == {}

\* The dependency arrays of gulp.task.
Deps(t) ==
  CASE t = "views:watch" -> {"views"}
    [] t = "scripts:watch" -> {"scripts"}
    [] OTHER -> {}

\* SequenceArgs with 'clean' inside the parallel set.
SequenceArgs_cleanInParallel ==
  IF isProd THEN <<{"clean"} \cup Compile>>
  ELSE <<{"clean"} \cup Compile, {"serve"}, {"watch"}>>

\* SequenceArgs with 'watch' listed before 'serve'.
SequenceArgs_watchFirst ==
  IF isProd THEN <<{"clean"}, Compile>>
  ELSE <<{"clean"}, Compile, {"watch"}, {"serve"}>>

\* SequenceArgs with the development list in both modes.
SequenceArgs_alwaysServe == <<{"clean"}, Compile, {"serve"}, {"watch"}>>

\* The task sets handed to runSequence by the 'default' task.
SequenceArgs ==
  IF isProd THEN <<{"clean"}, Compile>>
  ELSE <<{"clean"}, Compile, {"serve"}, {"watch"}>>

\* The four gulp.watch calls of the 'watch' task.
WatchList ==
  {<<"views", "views:watch">>, <<"media", "media">>,
   <<"styles", "styles">>, <<"scripts", "scripts:watch">>}

NewPipe == [pc |-> 0, files |-> {}, err |-> FALSE, failed |-> FALSE]

\* The named tasks with their dependencies.
Closure(names) == names \cup UNION {Deps(t) : t \in names}

\* gulp.start while a run is in play resets the named tasks and their
\* dependencies only; task.running is left alone.
ResetSpecific(d, names) == [u \in AllTasks |-> IF u \in Closure(names) THEN FALSE ELSE d[u]]

\* A synchronous task body is on the call stack: nothing else runs.
SyncBusy == \E t \in SyncTasks : running[t]

Bump(n, set) == [u \in DOMAIN n |-> n[u] + (IF u \in set THEN 1 ELSE 0)]

\* The orchestrator's step at the end of every handler: start each queued
\* task that is neither done nor running and whose dependencies are done.
\* 'views:watch' and 'scripts:watch' call browserSync.reload() and done() in
\* their body, so they are complete when the step returns.
RunStep(doneB, runB, seqB, stops) ==
  LET ready == {u \in seqB : ~doneB[u] /\ ~runB[u] /\ \A d \in Deps(u) : doneB[d]}
      reloads == ready \cap ReloadTasks
      started == ready \ reloads
      doneF == [u \in AllTasks |-> doneB[u] \/ u \in reloads]
  IN /\ running' = [u \in AllTasks |-> runB[u] \/ u \in started]
     /\ done' = doneF
     /\ seq' = seqB
     /\ isRunning' = (\E u \in seqB : ~doneF[u])
     /\ pipe' = [k \in Compile |-> IF k \in started THEN NewPipe ELSE pipe[k]]
     /\ bs' = [bs EXCEPT !.init = @ + (IF "serve" \in started THEN 1 ELSE 0),
                         !.stream = @ + Cardinality(started \cap StreamTasks),
                         !.reload = @ + Cardinality(reloads)]
     /\ watchers' = IF "watch" \in started THEN watchers \cup WatchList ELSE watchers
     /\ nStart' = Bump(nStart, ready)
     /\ nStop' = Bump(nStop, stops \cup reloads)
     /\ nErr' = nErr

\* A task has finished: the orchestrator marks it, emits task_stop or
\* task_err, run-sequence (while it listens) moves to its next task set or
\* finishes, and the orchestrator steps or, on an error, stops.
TaskStops(t, err) ==
  LET run1 == [running EXCEPT ![t] = FALSE]
      done1 == [done EXCEPT ![t] = TRUE]
      cur1 == IF listening /\ ~err THEN currentTaskSet \ {t} ELSE currentTaskSet
      advance == listening /\ ~err /\ cur1 = {}
      command == IF advance /\ taskSets # <<>> THEN Head(taskSets) ELSE {}
      finished == listening /\ (err \/ (advance /\ taskSets = <<>>))
      run2 == IF finished THEN [run1 EXCEPT !["default"] = FALSE] ELSE run1
      done2 == IF finished THEN [done1 EXCEPT !["default"] = TRUE] ELSE done1
      ends == IF finished THEN {t, "default"} ELSE {t}
  IN /\ currentTaskSet' = IF command # {} THEN command ELSE cur1
     /\ taskSets' = IF command # {} THEN Tail(taskSets) ELSE taskSets
     /\ listening' = (listening /\ ~finished)
     /\ cbState' = IF finished THEN (IF err THEN "err" ELSE "ok") ELSE cbState
     /\ IF err
        THEN /\ running' = run2
             /\ done' = done2
             /\ isRunning' = FALSE
             /\ nErr' = Bump(nErr, ends)
             /\ UNCHANGED <<seq, pipe, bs, watchers, nStart, nStop>>
        ELSE RunStep(ResetSpecific(done2, command), run2, seq \cup Closure(command), ends)

\* ------------------------------------------------------------------------
\* Initial state.
\* ------------------------------------------------------------------------

TrackedFile(k, stylesExt) ==
  CASE k = "views" -> [dir |-> <<>>, base |-> "index", ext |-> "html"]
    [] k = "media" -> [dir |-> <<>>, base |-> "logo", ext |-> "png"]
    [] k = "styles" -> [dir |-> <<>>, base |-> "main", ext |-> stylesExt]
    [] k = "scripts" -> [dir |-> <<>>, base |-> "app", ext |-> "js"]

Idle ==
  /\ srcVer = [k \in Compile |-> 0]
  /\ dest = [k \in Compile |-> {}]
  /\ running = [t \in AllTasks |-> FALSE]
  /\ done = [t \in AllTasks |-> FALSE]
  /\ seq = {}
  /\ isRunning = FALSE
  /\ taskSets = <<>>
  /\ currentTaskSet = {}
  /\ listening = FALSE
  /\ cbState = "none"
  /\ pipe = [k \in Compile |-> NewPipe]
  /\ watchers = {}
  /\ bs = [init |-> 0, stream |-> 0, reload |-> 0]
  /\ nStart = [t \in AllTasks |-> 0]
  /\ nStop = [t \in AllTasks |-> 0]
  /\ nErr = [t \in AllTasks |-> 0]
  /\ nEvents = [k \in Compile |-> 0]
  /\ raised = [k \in Compile |-> 0]
  /\ notified = [k \in Compile |-> 0]
  /\ written = [k \in Compile |-> {}]

Init ==
  /\ isProd \in BOOLEAN
  /\ stale \in BOOLEAN
  /\ \E e \in StyleExts : srcFile = [k \in Compile |-> TrackedFile(k, e)]
  /\ layout = [k \in Compile |-> {}]
  /\ Idle

\* ------------------------------------------------------------------------
\* Actions.
\* ------------------------------------------------------------------------

\* `gulp`: the CLI starts 'default', whose body calls runSequence, which
\* attaches its listeners and starts its first task set.
DefaultTask ==
  /\ nStart["default"] = 0
  /\ ~isRunning
  /\ LET command == Head(SequenceArgs)
     IN /\ taskSets' = Tail(SequenceArgs)
        /\ currentTaskSet' = command
        /\ listening' = TRUE
        /\ cbState' = cbState
        /\ RunStep([u \in AllTasks |-> FALSE], running,
                   {"default"} \cup Closure(command), {})
  /\ UNCHANGED <<isProd, fileVars, histVars, pathVars>>

\* del([dirs.output]) resolves: the output directory is gone.
CleanResolve ==
  /\ running["clean"]
  /\ stale' = FALSE
  /\ dest' = [k \in Compile |-> {}]
  /\ TaskStops("clean", FALSE)
  /\ UNCHANGED <<isProd, srcFile, srcVer, histVars, pathVars>>

\* del([dirs.output]) rejects.
CleanReject ==
  /\ running["clean"]
  /\ TaskStops("clean", TRUE)
  /\ UNCHANGED <<isProd, fileVars, histVars, pathVars>>

\* gulp.src reads the followed file; every other stage handles the stream.
StageOut(k, stage, files) ==
  IF stage = "src"
  THEN {[path |-> srcFile[k], ver |-> srcVer[k], applied |-> {}]}
  ELSE StageApply(stage, files, dest[k])

RECURSIVE RunStages(_, _, _, _)
\* The stream after stages i..j of task k's pipeline.
RunStages(k, i, j, files) ==
  IF i > j THEN files ELSE RunStages(k, i + 1, j, StageOut(k, Pipeline(k)[i], files))

\* The stages between reading the source and writing the destination touch
\* nothing but the stream, so they run in one step: a step ends before
\* 'dest', after 'dest', or at the end of the pipeline.
NextStop(k, pc) ==
  LET n == Len(Pipeline(k))
      stops == {j \in (pc + 1)..n :
                  j = n \/ Pipeline(k)[j] = "dest" \/ Pipeline(k)[j + 1] = "dest"}
  IN CHOOSE j \in stops : \A i \in stops : j <= i

\* The stream of a compile task moves on to the next stop.
StageStep(k) ==
  /\ running[k]
  /\ ~SyncBusy
  /\ pipe[k].pc < Len(Pipeline(k))
  /\ LET stop == NextStop(k, pipe[k].pc)
         in == pipe[k].files
     IN /\ pipe' = [pipe EXCEPT ![k].pc = stop,
                                ![k].files = RunStages(k, pipe[k].pc + 1, stop, in)]
        /\ dest' = IF Pipeline(k)[stop] = "dest"
                   THEN [dest EXCEPT ![k] = WriteAll(@, in, srcVer[k])]
                   ELSE dest
  /\ UNCHANGED <<isProd, srcFile, srcVer, stale, histVars, pathVars>>
  /\ UNCHANGED <<running, done, seq, isRunning, taskSets, currentTaskSet, listening,
                 cbState, watchers, bs, nStart, nStop, nErr>>

\* A stage piped after plumber raises an error on a file that reached it:
\* plumber hands the error to errorHandler, which notifies and ends the
\* stream.
StageError(k) ==
  /\ running[k]
  /\ ~SyncBusy
  /\ pipe[k].pc < Len(Pipeline(k))
  /\ raised["views"] + raised["media"] + raised["styles"] + raised["scripts"] < MaxErrors
  /\ \E j \in (pipe[k].pc + 1)..NextStop(k, pipe[k].pc) :
       /\ j > 2
       /\ Pipeline(k)[j] \notin QuietStages
       /\ RunStages(k, pipe[k].pc + 1, j - 1, pipe[k].files) # {}
  /\ raised' = [raised EXCEPT ![k] = @ + 1]
  /\ notified' = [notified EXCEPT ![k] = @ + errorHandler.notify]
  /\ pipe' = [pipe EXCEPT ![k] = [pc |-> Len(Pipeline(k)), files |-> {}, err |-> TRUE,
                                  failed |-> ~errorHandler.end]]
  /\ UNCHANGED <<isProd, fileVars, nEvents, pathVars>>
  /\ UNCHANGED <<running, done, seq, isRunning, taskSets, currentTaskSet, listening,
                 cbState, watchers, bs, nStart, nStop, nErr>>

\* The stream a compile task returned has ended.
PipelineEnd(k) ==
  /\ running[k]
  /\ ~SyncBusy
  /\ pipe[k].pc = Len(Pipeline(k))
  /\ TaskStops(k, pipe[k].failed)
  /\ UNCHANGED <<isProd, fileVars, histVars, pathVars>>

\* 'serve' and 'watch' return nothing the orchestrator waits for: they are
\* complete as soon as their body returns.
SyncFinish(t) ==
  /\ running[t]
  /\ TaskStops(t, FALSE)
  /\ UNCHANGED <<isProd, fileVars, histVars, pathVars>>

\* A change event in a watched glob: the watcher calls gulp.start(task).
\* edited: the event is an edit of the followed file (else of another file).
ChangeEvent(k, edited) ==
  /\ ~SyncBusy
  /\ nEvents["views"] + nEvents["media"] + nEvents["styles"] + nEvents["scripts"] < MaxEvents
  /\ edited => srcVer[k] < MaxEdits
  /\ \E w \in watchers :
       /\ w[1] = k
       /\ LET names == {w[2]}
          IN RunStep(IF isRunning THEN ResetSpecific(done, names)
                                  ELSE [u \in AllTasks |-> FALSE],
                     running,
                     Closure(names) \cup (IF isRunning THEN seq ELSE {}),
                     {})
  /\ nEvents' = [nEvents EXCEPT ![k] = @ + 1]
  /\ srcVer' = IF edited THEN [srcVer EXCEPT ![k] = @ + 1] ELSE srcVer
  /\ UNCHANGED <<isProd, srcFile, stale, dest, raised, notified, pathVars>>
  /\ UNCHANGED <<taskSets, currentTaskSet, listening, cbState>>

Next ==
  \/ DefaultTask
  \/ CleanResolve
  \/ CleanReject
  \/ \E k \in Compile : StageStep(k)
  \/ \E k \in Compile : StageError(k)
  \/ \E k \in Compile : PipelineEnd(k)
  \/ \E t \in SyncTasks : SyncFinish(t)
  \/ \E k \in Compile, edited \in BOOLEAN : ChangeEvent(k, edited)

Spec == Init /\ [][Next]_vars

\* ------------------------------------------------------------------------
\* The output paths of a source tree (path specification).
\* ------------------------------------------------------------------------

PathDirs ==
  {<<>>, <<"sub">>, <<"static", "media">>, <<"static", "styles">>, <<"static", "scripts">>}

PathExts == {"html", "png", "scss", "css", "js"}

\* Files a source directory may hold, relative to src/<task>/.
PathFiles ==
  {[dir |-> d, base |-> "a", ext |-> e] : d \in PathDirs, e \in PathExts}
    \cup {[dir |-> <<>>, base |-> "lib.module", ext |-> "js"]}

\* The path gulp.dest writes a file of task k to.
FullPath(k, p) == [dirs |-> DestDir(k) \o p.dir, base |-> p.base, ext |-> p.ext]

InitPaths ==
  /\ isProd \in BOOLEAN
  /\ stale = FALSE
  /\ srcFile = [k \in Compile |-> TrackedFile(k, "scss")]
  /\ layout = [k \in Compile |-> {}]
  /\ Idle

\* The source tree holds one more file in src/<k>/ that the task's glob matches.
AddSource(k, f) ==
  /\ \A t \in Compile : written[t] = {}
  /\ Cardinality(UNION {{<<t, g>> : g \in layout[t]} : t \in Compile}) < MaxSources
  /\ MatchesSrc(k, f)
  /\ f \notin layout[k]
  /\ layout' = [layout EXCEPT ![k] = @ \cup {f}]
  /\ UNCHANGED <<isProd, orchVars, fileVars, histVars, written>>

\* Task k builds the files of the tree that match its glob into an empty
\* output directory.
BuildTask(k) ==
  /\ written[k] = {}
  /\ \E f \in layout[k] : MatchesSrc(k, f)
  /\ LET matched == {[path |-> f, ver |-> 0, applied |-> {}] :
                       f \in {g \in layout[k] : MatchesSrc(k, g)}}
         out == RunStages(k, 2, Len(Pipeline(k)), matched)
     IN written' = [written EXCEPT ![k] = {FullPath(k, w.path) : w \in out}]
  /\ UNCHANGED <<isProd, orchVars, fileVars, histVars, layout>>

NextPaths ==
  \/ \E k \in Compile, f \in PathFiles : AddSource(k, f)
  \/ \E k \in Compile : BuildTask(k)

SpecPaths == InitPaths /\ [][NextPaths]_vars

\* ------------------------------------------------------------------------
\* Properties.
\* ------------------------------------------------------------------------

\* The task a watcher of glob k starts.
WatchTask(k) == IF k = "views" THEN "views:watch" ELSE "scripts:watch"

Reloading == {"views", "scripts"}

Filtered == {"views", "media", "styles"}

\* C1: in a run of 'default', in either mode, no compile task is running or
\* has started while 'clean' is running, and a compile task starts only after
\* 'clean' has stopped and the output directory of the earlier build is gone.
C1_CleanBeforeCompile ==
  /\ running["clean"] =>
       \A k \in Compile : ~running[k] /\ nStart[k] = 0 /\ dest[k] = {}
  /\ \A k \in Compile :
       nStart[k] > 0 => nStop["clean"] = 1 /\ nErr["clean"] = 0 /\ ~stale

C1_Witness ==
  \E k \in Compile : running[k] /\ pipe[k].pc > 0 /\ nStop["clean"] = 1

\* C2 as stated: in development 'serve' starts only after the four compile
\* tasks have stopped, 'watch' starts only after 'serve' has stopped, and the
\* callback of 'default' is invoked only after 'watch' has registered its
\* four watchers.
C2_Original ==
  ~isProd =>
    /\ nStart["serve"] > 0 => \A k \in Compile : nStop[k] >= 1
    /\ nStart["watch"] > 0 => nStop["serve"] >= 1
    /\ cbState # "none" => nStop["watch"] >= 1 /\ watchers = WatchList

\* C2 amended: as C2, but only a callback without an error waits for the
\* watchers; when 'clean' fails the callback is invoked with the error at
\* once, and neither a compile task nor 'serve' nor 'watch' has started.
C2_ServeThenWatch ==
  ~isProd =>
    /\ nStart["serve"] > 0 => \A k \in Compile : nStop[k] >= 1
    /\ nStart["watch"] > 0 => nStop["serve"] >= 1
    /\ cbState = "ok" => nStop["watch"] >= 1 /\ watchers = WatchList
    /\ cbState = "err" =>
         /\ nErr["clean"] = 1
         /\ watchers = {}
         /\ \A t \in Compile \cup SyncTasks : nStart[t] = 0

C2_Witness ==
  ~isProd /\ cbState = "ok" /\ watchers = WatchList /\ nStop["serve"] = 1

C5_MinifyIffProduction ==
  /\ \A w \in dest["views"] :
       w.applied = {} /\ w.path = srcFile["views"] /\ w.ver <= srcVer["views"]
  /\ \A w \in dest["media"] :
       /\ ("imagemin" \in w.applied) <=> isProd
       /\ ~isProd => w.applied = {} /\ w.path = srcFile["media"] /\ w.ver <= srcVer["media"]
  /\ \A w \in dest["styles"] :
       w.path.ext = "css" => (("cleanCSS" \in w.applied) <=> isProd)
  /\ \A w \in dest["scripts"] : ("MinifyPlugin" \in w.applied) <=> isProd

C5_Witness == isProd /\ \A k \in Compile : dest[k] # {} /\ ~running[k]

\* C6 as stated: whenever a reload task runs, every change event delivered
\* so far to that watcher has had a run of the compile task of its own, and
\* that run has stopped.
C6_Original ==
  [][\A k \in Reloading :
       nStop'[WatchTask(k)] > nStop[WatchTask(k)] => nStop'[k] = 1 + nEvents'[k]]_vars

\* C6 amended: a reload task runs exactly in the step in which a run of its
\* compile task that a change event started stops, so the reload comes
\* after that run and every such run is followed by a reload; a change event
\* starts a run of the compile task only when none is in progress, and an
\* event that arrives during a run starts none and is served by the reload
\* that follows the run in progress.
C6_ReloadAfterCompile ==
  [][\A k \in Reloading :
       /\ (nStop'[WatchTask(k)] > nStop[WatchTask(k)])
            <=> (nStop'[k] > nStop[k] /\ nEvents[k] > 0)
       /\ nStop'[WatchTask(k)] > nStop[WatchTask(k)] =>
            /\ ~running'[k]
            /\ bs'.reload = bs.reload + 1
            /\ nStop'[WatchTask(k)] = nStop[WatchTask(k)] + 1
       /\ nEvents'[k] > nEvents[k] =>
            /\ running'[k]
            /\ nStart'[k] = nStart[k] + (IF running[k] THEN 0 ELSE 1)
            /\ bs'.reload = bs.reload]_vars

C6_Witness ==
  \E k \in Reloading :
    nEvents[k] = 2 /\ nStart[k] = 2 /\ nStop[k] = 2 /\ nStop[WatchTask(k)] = 1 /\ ~running[k]

\* C7: in development no file of 'views', 'media' or 'styles' flows on to be
\* written while the file of the same path in the destination is up to date
\* with its source.
C7_OnlyChangedFiles ==
  ~isProd =>
    \A k \in Filtered :
      (running[k] /\ pipe[k].pc > 0 /\ pipe[k].pc < Len(Pipeline(k))
         /\ Pipeline(k)[pipe[k].pc + 1] = "dest") =>
        \A f \in pipe[k].files :
          ~ \E w \in dest[k] : w.path = f.path /\ w.asOf >= f.ver

\* A views file that lies below the destination of another task.
UnderStatic(f) ==
  Len(f.dir) >= 2 /\ f.dir[1] = "static" /\ f.dir[2] \in {"media", "styles", "scripts"}

\* C8 as stated: no two compile tasks write the same output path.
C8_Original ==
  \A a \in Compile, b \in Compile : a # b => written[a] \cap written[b] = {}

\* C8 amended: 'media', 'styles' and 'scripts' never write the same output
\* path, and 'views' writes none of theirs provided no views source lies in
\* static/media, static/styles or static/scripts below src/views.
C8_DisjointOutputs ==
  /\ \A a \in Compile \ {"views"}, b \in Compile \ {"views"} :
       a # b => written[a] \cap written[b] = {}
  /\ (\A f \in layout["views"] : ~UnderStatic(f)) =>
       \A b \in Compile \ {"views"} : written["views"] \cap written[b] = {}

C8_Witness ==
  /\ written["views"] # {}
  /\ \E b \in Compile \ {"views"} : written[b] # {}
  /\ \A f \in layout["views"] : ~UnderStatic(f)

====
